---- MODULE Spec2Model ----
(***************************************************************************)
(* Model of the gossip persistence actor, src/persistence.rs:              *)
(* GossipPersister::new, GossipPersister::persist_gossip and               *)
(* GossipPersister::persist_network_graph, together with the tokio mpsc    *)
(* channels and the store connection the actor talks to.                   *)
(*                                                                         *)
(* One action is one run of a task between two await points.  The gossip   *)
(* source, the downstream server, the store and the clock are the          *)
(* environment.  Strings are sequences of one-character strings; a u64     *)
(* short_channel_id is the tuple of its 8 big-endian bytes.                *)
(***************************************************************************)
EXTENDS Integers, Sequences, FiniteSets, TLC

VARIABLES
    alphabet,                      \* messages the gossip source may emit in this run
    budget,                        \* number of sends the gossip source has left
    gossip_channel,                \* buffer of mpsc::channel::<GossipMessage>(100)
    pending_send,                  \* value of a producer send suspended on a full channel
    senders_dropped,               \* every gossip Sender handle has been dropped
    pc,                            \* position of persist_gossip
    gossip_message,                \* the message bound by the while-let
    i,                             \* let mut i = 0u32 (the runs here stay far below 2^32)
    persistence_log_threshold,     \* let mut persistence_log_threshold = 10000
    server_sync_completion_sent,   \* let mut server_sync_completion_sent = false
    latest_graph_cache_time,       \* let mut latest_graph_cache_time = Instant::now()
    now,                           \* the monotonic clock: seconds since the loop was entered
    connection,                    \* the store connection: "none", "up", "failed"
    store_requests,                \* statements sent to the store and not yet executed
    store_response,                \* the answer the actor awaits: "none", "ok", "err"
    config,                        \* table config
    channel_announcements,         \* table channel_announcements
    channel_updates,               \* table channel_updates
    completion_channel,            \* number of () buffered in the completion channel
    server_received,               \* number of () the server has received
    server_closed,                 \* the server dropped its completion Receiver
    network_graph,                 \* channels of the shared NetworkGraph
    cache_file,                    \* the cache file: None when absent, else its content
    writer,                        \* content held by the BufWriter, None outside a write
    stdout,                        \* numbers printed by "Persisting gossip message #{}"
    enqueued,                      \* history: every message a send has put in the channel
    dequeued,                      \* history: every message recv has returned
    completion_sends,              \* history: number of completed completion sends
    resumed_sends,                 \* history: number of suspended sends that completed
    closed_with_backlog,           \* history: the Senders went with messages buffered
    schema_version,                \* config::SCHEMA_VERSION of the binary that is running
    horizon,                       \* the clock reading at which the observation ends
    restarts,                      \* number of times the process has been started again
    stream,                        \* history: the upstream's messages, each once, in order
    script,                        \* messages of the stream still to be sent again
    cache_completions              \* history: clock reading at the end of each cache write

vars == <<alphabet, budget, gossip_channel, pending_send, senders_dropped, pc,
          gossip_message, i, persistence_log_threshold, server_sync_completion_sent,
          latest_graph_cache_time, now, connection, store_requests, store_response,
          config, channel_announcements, channel_updates, completion_channel,
          server_received, server_closed, network_graph, cache_file, writer, stdout,
          enqueued, dequeued, completion_sends, resumed_sends, closed_with_backlog,
          schema_version, horizon, restarts, stream, script, cache_completions>>

sourceVars == <<alphabet, budget, pending_send, senders_dropped, enqueued,
                resumed_sends, closed_with_backlog>>
loopVars == <<gossip_message, i, persistence_log_threshold,
              server_sync_completion_sent, stdout, dequeued>>
storeVars == <<config, channel_announcements, channel_updates>>
serverVars == <<completion_channel, server_received, server_closed, completion_sends>>
cacheVars == <<network_graph, cache_file, writer, latest_graph_cache_time,
               cache_completions>>
runVars == <<schema_version, horizon, restarts, stream, script>>

(***************************************************************************)
(* Bounds of the model and constants of the program.                       *)
(***************************************************************************)
MaxMsgs == 3                 \* sends of the gossip source in Spec
ExtraMsgs == 2               \* sends beyond the channel capacity in SpecBackpressure
MaxTicks == 2                \* clock ticks in a run
MaxRestarts == 1             \* restarts of the process in SpecRestart
CompletionCapacity == 1      \* slots of the completion channel (chosen by the caller)

ChannelCapacity == 100       \* mpsc::channel::<GossipMessage>(100)
InitialLogThreshold == 10000 \* persistence_log_threshold = 10000
LiveLogThreshold == 50       \* persistence_log_threshold = 50
CacheIntervalSecs == 600     \* elapsed().as_secs() >= 600
SCHEMA_VERSION == 1          \* config::SCHEMA_VERSION

\* The clock advances in steps of half the cache interval.
TickSecs == CacheIntervalSecs \div 2

\* Option::None, and the absent file
None == [type |-> "None"]

\* A byte stream holding the serialization of a graph
Serialized(graph) == [type |-> "Bytes", graph |-> graph]

(***************************************************************************)
(* Gossip messages (crate::types::GossipMessage).                          *)
(***************************************************************************)
Scid1 == <<0, 0, 1, 0, 0, 0, 0, 0>>
Scid2 == <<0, 0, 1, 0, 0, 0, 0, 16>>

InitialSyncComplete == [type |-> "InitialSyncComplete"]

ChannelAnnouncement(scid, payload) ==
    [type |-> "ChannelAnnouncement", short_channel_id |-> scid, payload |-> payload]

ChannelUpdate(scid, timestamp, flags, fee) ==
    [type |-> "ChannelUpdate", short_channel_id |-> scid, timestamp |-> timestamp,
     flags |-> flags, fee_base_msat |-> fee]

Announcements ==
    {ChannelAnnouncement(Scid1, 1), ChannelAnnouncement(Scid1, 2),
     ChannelAnnouncement(Scid2, 1)}

\* A base update; one that differs from it in the scid, one in the timestamp and
\* one in the direction bit alone; and one with the base's scid, timestamp and
\* direction whose other flag bit and fee differ.
BaseUpdate == ChannelUpdate(Scid1, 100, 0, 1)

Updates ==
    {BaseUpdate,
     ChannelUpdate(Scid2, 100, 0, 1),
     ChannelUpdate(Scid1, 101, 0, 1),
     ChannelUpdate(Scid1, 100, 1, 1),
     ChannelUpdate(Scid1, 100, 2, 2)}

GossipMessage == {InitialSyncComplete} \cup Announcements \cup Updates

\* One message of each kind
MixedAlphabet == {InitialSyncComplete, ChannelAnnouncement(Scid1, 1), BaseUpdate}

\* The streams of a run draw from one of these sets of messages.
Alphabets ==
    {{InitialSyncComplete} \cup Announcements,
     {InitialSyncComplete} \cup Updates,
     MixedAlphabet}

\* The streams of a run that is restarted: a control message, and announcements
\* and updates that collide on their key with different contents.
ReplayAlphabet ==
    {InitialSyncComplete, ChannelAnnouncement(Scid1, 1), ChannelAnnouncement(Scid1, 2),
     BaseUpdate, ChannelUpdate(Scid1, 100, 2, 2)}

\* The streams of a run that fills the channel repeat one message.
UniformAlphabets ==
    {{InitialSyncComplete}, {ChannelAnnouncement(Scid1, 1)}, {BaseUpdate}}

(***************************************************************************)
(* Formatting.                                                             *)
(***************************************************************************)
HexDigits == <<"0", "1", "2", "3", "4", "5", "6", "7",
               "8", "9", "a", "b", "c", "d", "e", "f">>

DecDigits == <<"0", "1", "2", "3", "4", "5", "6", "7", "8", "9">>

RECURSIVE hex_str(_)
hex_str(bytes) ==
    IF bytes = <<>> THEN <<>>
    ELSE <<HexDigits[(Head(bytes) \div 16) + 1], HexDigits[(Head(bytes) % 16) + 1]>>
         \o hex_str(Tail(bytes))

RECURSIVE Display(_)
Display(n) ==
    IF n < 10 THEN <<DecDigits[n + 1]>>
    ELSE Display(n \div 10) \o <<DecDigits[(n % 10) + 1]>>

\* (scid >> 5 * 8) as i32: the three most significant bytes
block_height(scid) == scid[1] * 65536 + scid[2] * 256 + scid[3]

direction(flags) == flags % 2

disable(flags) == (flags \div 2) % 2 > 0

\* A faulty variant of composite_index: the direction is left out of the key.
composite_index_no_direction(scid_hex, timestamp, dir) ==
    scid_hex \o <<":">> \o Display(timestamp)

\* format!("{}:{}:{}", scid_hex, timestamp, direction)
composite_index(scid_hex, timestamp, dir) ==
    scid_hex \o <<":">> \o Display(timestamp) \o <<":">> \o Display(dir)

AnnouncementRow(m) ==
    [short_channel_id |-> hex_str(m.short_channel_id),
     block_height |-> block_height(m.short_channel_id),
     announcement_signed |-> m]

UpdateRow(m) ==
    [composite_index |-> composite_index(hex_str(m.short_channel_id), m.timestamp,
                                         direction(m.flags)),
     short_channel_id |-> hex_str(m.short_channel_id),
     timestamp |-> m.timestamp,
     channel_flags |-> m.flags,
     direction |-> direction(m.flags),
     disable |-> disable(m.flags),
     fee_base_msat |-> m.fee_base_msat,
     blob_signed |-> m]


(***************************************************************************)
(* The store: INSERT ... ON CONFLICT (key) DO NOTHING.                     *)
(***************************************************************************)
\* CREATE TABLE IF NOT EXISTS, the statement the config::db_*_table_creation_query
\* functions return: a table that exists is left as it is, with its rows.
CreateTableIfAbsent(table) == table

\* A faulty variant of InsertConfig: ON CONFLICT (id) DO UPDATE.
InsertConfigOverwrite(table, row) == {r \in table : r.id # row.id} \cup {row}

InsertConfig(table, row) ==
    IF \E r \in table : r.id = row.id THEN table ELSE table \cup {row}

\* A faulty variant of InsertAnnouncement: ON CONFLICT DO UPDATE, the later row wins.
InsertAnnouncementOverwrite(table, row) ==
    {r \in table : r.short_channel_id # row.short_channel_id} \cup {row}

InsertAnnouncement(table, row) ==
    IF \E r \in table : r.short_channel_id = row.short_channel_id
    THEN table ELSE table \cup {row}

\* A faulty variant of InsertUpdate: ON CONFLICT .. DO UPDATE.
InsertUpdateOverwrite(table, row) ==
    {r \in table : r.composite_index # row.composite_index} \cup {row}

InsertUpdate(table, row) ==
    IF \E r \in table : r.composite_index = row.composite_index
    THEN table ELSE table \cup {row}

(***************************************************************************)
(* The channels (tokio::sync::mpsc).                                       *)
(***************************************************************************)
\* The gossip Receiver lives as long as persist_gossip runs.
ReceiverAlive == pc \notin {"done", "aborted"}

\* A faulty variant of HasPermit: one permit too many.
HasPermitOffByOne(buffer) == Len(buffer) <= ChannelCapacity

\* A send needs one of the channel's 100 permits; a buffered message holds one.
HasPermit(buffer) == Len(buffer) < ChannelCapacity

Push(buffer, m) == Append(buffer, m)

\* A faulty variant of Recv: the newest message is taken first.
RecvNewest(buffer) == <<buffer[Len(buffer)], SubSeq(buffer, 1, Len(buffer) - 1)>>

\* recv() on a buffer that holds a message: the message returned and the buffer left
Recv(buffer) == <<Head(buffer), Tail(buffer)>>

\* A faulty variant of Closed: the loop ends as soon as every Sender is gone.
ClosedEarly(buffer) == senders_dropped

\* recv() returns None: nothing is buffered and every Sender is gone
Closed(buffer) == buffer = <<>> /\ senders_dropped

CompletionHasPermit == completion_channel < CompletionCapacity

(***************************************************************************)
(* Initial states: GossipPersister::new has returned, persist_gossip has   *)
(* not started.                                                            *)
(***************************************************************************)
InitActor ==
    /\ gossip_channel = <<>>
    /\ pending_send = None
    /\ senders_dropped = FALSE
    /\ pc = "connect"
    /\ gossip_message = None
    /\ i = 0
    /\ persistence_log_threshold = InitialLogThreshold
    /\ server_sync_completion_sent = FALSE
    /\ latest_graph_cache_time = 0
    /\ now = 0
    /\ connection = "none"
    /\ store_requests = <<>>
    /\ store_response = "none"
    /\ config = {}
    /\ channel_announcements = {}
    /\ channel_updates = {}
    /\ completion_channel = 0
    /\ server_received = 0
    /\ server_closed = FALSE
    /\ network_graph = {"fresh", "stale"}
    /\ cache_file = None
    /\ writer = None
    /\ stdout = <<>>
    /\ enqueued = <<>>
    /\ dequeued = <<>>
    /\ completion_sends = 0
    /\ resumed_sends = 0
    /\ closed_with_backlog = FALSE
    /\ schema_version = SCHEMA_VERSION
    /\ restarts = 0
    /\ stream = <<>>
    /\ script = <<>>
    /\ cache_completions = <<>>

Init ==
    /\ InitActor
    /\ horizon = MaxTicks * TickSecs
    /\ alphabet \in Alphabets
    /\ budget = MaxMsgs

\* A gossip source that can overrun the channel's capacity.
InitBackpressure ==
    /\ InitActor
    /\ horizon = 0
    /\ alphabet \in UniformAlphabets
    /\ budget = ChannelCapacity + ExtraMsgs

(***************************************************************************)
(* The gossip source: holds the Sender returned by GossipPersister::new.   *)
(***************************************************************************)
\* sender.send(m).await: completes at once when a permit is free, else suspends.
Emit(m) ==
    IF HasPermit(gossip_channel)
    THEN /\ gossip_channel' = Push(gossip_channel, m)
         /\ enqueued' = Append(enqueued, m)
         /\ pending_send' = pending_send
    ELSE /\ pending_send' = m
         /\ UNCHANGED <<gossip_channel, enqueued>>

\* The upstream produces its next message and sends it.
SourceSend ==
    /\ budget > 0
    /\ script = <<>>
    /\ ~senders_dropped
    /\ pending_send = None
    /\ ReceiverAlive
    /\ \E m \in alphabet :
         /\ Emit(m)
         /\ stream' = Append(stream, m)
    /\ budget' = budget - 1
    /\ UNCHANGED <<schema_version, horizon, restarts, script, alphabet, senders_dropped, resumed_sends, closed_with_backlog, pc,
                   loopVars, now, connection,
                   store_requests, store_response, storeVars, serverVars, cacheVars>>

\* After a restart the upstream sends its stream again from the beginning.
SourceReplay ==
    /\ script # <<>>
    /\ ~senders_dropped
    /\ pending_send = None
    /\ ReceiverAlive
    /\ Emit(Head(script))
    /\ script' = Tail(script)
    /\ UNCHANGED <<schema_version, horizon, restarts, stream, alphabet, budget,
                   senders_dropped, resumed_sends, closed_with_backlog, pc,
                   loopVars, now, connection,
                   store_requests, store_response, storeVars, serverVars, cacheVars>>

\* A suspended send completes once the receiver has freed a permit.
SourceResume ==
    /\ pending_send # None
    /\ ReceiverAlive
    /\ HasPermit(gossip_channel)
    /\ gossip_channel' = Push(gossip_channel, pending_send)
    /\ enqueued' = Append(enqueued, pending_send)
    /\ pending_send' = None
    /\ resumed_sends' = resumed_sends + 1
    /\ UNCHANGED <<runVars, alphabet, budget, senders_dropped, closed_with_backlog, pc,
                   loopVars, now, connection,
                   store_requests, store_response, storeVars, serverVars, cacheVars>>

\* The last Sender handle is dropped: the channel is closed for sending.
SourceDrop ==
    /\ ~senders_dropped
    /\ pending_send = None
    /\ senders_dropped' = TRUE
    /\ closed_with_backlog' = (gossip_channel # <<>>)
    /\ UNCHANGED <<runVars, alphabet, budget, gossip_channel, pending_send, enqueued,
                   resumed_sends, pc,
                   loopVars, now, connection, store_requests, store_response,
                   storeVars, serverVars, cacheVars>>


(***************************************************************************)
(* persist_gossip: connection and schema bootstrap (lines 31-84).          *)
(***************************************************************************)
\* connection_config.connect(NoTls).await.unwrap(), then the connection task is spawned
ActorConnect ==
    /\ pc = "connect"
    /\ connection' = "up"
    /\ pc' = "init"
    /\ UNCHANGED <<runVars, sourceVars, gossip_channel, loopVars, now, store_requests,
                   store_response, storeVars, serverVars, cacheVars>>

\* connect(..) returns Err: unwrap panics
ActorConnectFail ==
    /\ pc = "connect"
    /\ connection' = "failed"
    /\ pc' = "aborted"
    /\ UNCHANGED <<runVars, sourceVars, gossip_channel, loopVars, now, store_requests,
                   store_response, storeVars, serverVars, cacheVars>>

\* The connection reports an error and the spawned task panics.  The panic
\* unwinds: the runtime catches it, the task ends, its JoinHandle was dropped;
\* the client's later statements fail.
ConnectionFail ==
    /\ ReceiverAlive
    /\ connection = "up"
    /\ connection' = "failed"
    /\ UNCHANGED <<runVars, sourceVars, gossip_channel, pc, loopVars, now, store_requests,
                   store_response, storeVars, serverVars, cacheVars>>

\* The same panic in a build whose profile sets panic = "abort": the process ends.
ConnectionFailAbort ==
    /\ ReceiverAlive
    /\ connection = "up"
    /\ connection' = "failed"
    /\ pc' = "aborted"
    /\ UNCHANGED <<runVars, sourceVars, gossip_channel, loopVars, now, store_requests,
                   store_response, storeVars, serverVars, cacheVars>>

\* The five initialization statements, each answered Ok.
ActorBootstrap ==
    /\ pc = "init"
    /\ connection = "up"
    /\ config' = InsertConfig(CreateTableIfAbsent(config),
                              [id |-> 1, db_schema |-> schema_version])
    /\ channel_announcements' = CreateTableIfAbsent(channel_announcements)
    /\ channel_updates' = CreateTableIfAbsent(channel_updates)
    /\ pc' = "recv"
    /\ UNCHANGED <<runVars, sourceVars, gossip_channel, loopVars, now, connection,
                   store_requests, store_response, serverVars, cacheVars>>

\* An initialization statement returns Err: panic!("db init error: {}")
ActorBootstrapFail ==
    /\ pc = "init"
    /\ pc' = "aborted"
    /\ UNCHANGED <<runVars, sourceVars, gossip_channel, loopVars, now, connection,
                   store_requests, store_response, storeVars, serverVars, cacheVars>>

(***************************************************************************)
(* persist_gossip: the loop (lines 86-215).                                *)
(***************************************************************************)
\* i == 1 || i % persistence_log_threshold == 0
LogsProgress(n, threshold) == n = 1 \/ n % threshold = 0

\* A faulty variant of CacheDue: the comparison is strict.
CacheDueStrict == now - latest_graph_cache_time > CacheIntervalSecs

\* latest_graph_cache_time.elapsed().as_secs() >= 600
CacheDue == now - latest_graph_cache_time >= CacheIntervalSecs

\* What the insert of an announcement or update sends to the store.
InsertRequest(m) ==
    IF m.type = "ChannelAnnouncement"
    THEN [table |-> "channel_announcements", row |-> AnnouncementRow(m)]
    ELSE [table |-> "channel_updates", row |-> UpdateRow(m)]

\* A faulty variant of SentAfter: the arm forgets to set the flag.
SentAfterForgets(m) == server_sync_completion_sent

\* A faulty variant of NextPc: the send is not guarded by the flag.
NextPcAlwaysSend(m) == IF m.type = "InitialSyncComplete" THEN "send" ELSE "insert"

\* A faulty variant of NextPc: the test of the flag is inverted.
NextPcInvertedFlag(m) ==
    IF m.type = "InitialSyncComplete"
    THEN IF server_sync_completion_sent THEN "send" ELSE "recv"
    ELSE "insert"

\* A faulty variant of NextPc: the insert is issued and not awaited.
NextPcNoAwait(m) ==
    IF m.type = "InitialSyncComplete"
    THEN IF ~server_sync_completion_sent THEN "send" ELSE "recv"
    ELSE "recv"

\* A faulty variant of NextPc: the send follows the match instead of being in
\* the InitialSyncComplete arm.
NextPcSendFromAnyArm(m) ==
    IF ~server_sync_completion_sent THEN "send"
    ELSE IF m.type = "InitialSyncComplete" THEN "recv" ELSE "insert"

\* Where the match arm of message m stops: at the completion send, at the
\* awaited insert, or back at recv.
NextPc(m) ==
    IF m.type = "InitialSyncComplete"
    THEN IF ~server_sync_completion_sent THEN "send" ELSE "recv"
    ELSE "insert"

\* A faulty variant of CountAfter: the control message stays counted.
CountAfterNoDecrement(m, n) == n

\* i -= 1 in the InitialSyncComplete arm; n is the value of i after i += 1.
CountAfter(m, n) == IF m.type = "InitialSyncComplete" THEN n - 1 ELSE n

\* server_sync_completion_sent = true in the InitialSyncComplete arm
SentAfter(m) == m.type = "InitialSyncComplete" \/ server_sync_completion_sent

\* A faulty variant of ThresholdAfter: the arm leaves the threshold as it is.
ThresholdAfterUnchanged(m) == persistence_log_threshold

\* persistence_log_threshold = 50 in the InitialSyncComplete arm
ThresholdAfter(m) ==
    IF m.type = "InitialSyncComplete" THEN LiveLogThreshold
    ELSE persistence_log_threshold

\* match &gossip_message { .. } up to its first await; n is the value of i.
Dispatch(m, n) ==
    /\ i' = CountAfter(m, n)
    /\ persistence_log_threshold' = ThresholdAfter(m)
    /\ server_sync_completion_sent' = SentAfter(m)
    /\ store_requests' =
          IF m.type = "InitialSyncComplete" THEN store_requests
          ELSE Append(store_requests, InsertRequest(m))
    /\ pc' = NextPc(m)

\* recv().await returns Some(message): count, log, cache check and, when no cache
\* write is due, the match arm up to its await.
ActorRecv ==
    /\ pc = "recv"
    /\ gossip_channel # <<>>
    /\ LET m == Recv(gossip_channel)[1]
           n == i + 1
       IN /\ gossip_channel' = Recv(gossip_channel)[2]
          /\ gossip_message' = m
          /\ dequeued' = Append(dequeued, m)
          /\ stdout' = IF LogsProgress(n, persistence_log_threshold)
                       THEN Append(stdout, n) ELSE stdout
          /\ IF CacheDue
             THEN /\ pc' = "cache_open"
                  /\ i' = n
                  /\ UNCHANGED <<persistence_log_threshold,
                                 server_sync_completion_sent, store_requests>>
             ELSE Dispatch(m, n)
    /\ UNCHANGED <<runVars, sourceVars, now, connection, store_response, storeVars,
                   serverVars, cacheVars>>

\* recv().await returns None: the channel is closed and empty, the loop ends.
ActorRecvClosed ==
    /\ pc = "recv"
    /\ Closed(gossip_channel)
    /\ pc' = "done"
    /\ UNCHANGED <<runVars, sourceVars, gossip_channel, loopVars, now, connection,
                   store_requests, store_response, storeVars, serverVars, cacheVars>>

\* The match arm, entered after a cache write.
ActorDispatch ==
    /\ pc = "dispatch"
    /\ Dispatch(gossip_message, i)
    /\ UNCHANGED <<runVars, sourceVars, gossip_channel, gossip_message, stdout, dequeued, now,
                   connection, store_response, storeVars, serverVars, cacheVars>>

\* server_sync_completion_sender.send(()).await.unwrap()
ActorSend ==
    /\ pc = "send"
    /\ server_closed \/ CompletionHasPermit
    /\ IF server_closed
       THEN /\ pc' = "aborted"
            /\ UNCHANGED <<completion_channel, completion_sends>>
       ELSE /\ completion_channel' = completion_channel + 1
            /\ completion_sends' = completion_sends + 1
            /\ pc' = "recv"
    /\ UNCHANGED <<runVars, sourceVars, gossip_channel, loopVars, now, connection,
                   store_requests, store_response, storeVars, server_received,
                   server_closed, cacheVars>>

\* A faulty variant of AfterInsert: the error is logged and the loop goes on.
AfterInsertIgnoresError(response) == "recv"

\* if result.is_err() { panic!("error: {}", ..) }
AfterInsert(response) == IF response = "err" THEN "aborted" ELSE "recv"

\* client.execute(..).await returns; an Err panics.
ActorResume ==
    /\ pc = "insert"
    /\ store_response # "none"
    /\ pc' = AfterInsert(store_response)
    /\ store_response' = "none"
    /\ UNCHANGED <<runVars, sourceVars, gossip_channel, loopVars, now, connection,
                   store_requests, storeVars, serverVars, cacheVars>>


(***************************************************************************)
(* The store executing the statements of the client.                       *)
(***************************************************************************)
\* The table named in a request after the request's insert.
Executed(table, name, request) ==
    IF request.table # name THEN table
    ELSE IF name = "channel_announcements"
         THEN InsertAnnouncement(table, request.row)
         ELSE InsertUpdate(table, request.row)

\* The store executes the oldest statement and answers Ok.
StoreExecute ==
    /\ store_requests # <<>>
    /\ connection = "up"
    /\ LET request == Head(store_requests)
       IN /\ channel_announcements' =
                 Executed(channel_announcements, "channel_announcements", request)
          /\ channel_updates' = Executed(channel_updates, "channel_updates", request)
    /\ store_requests' = Tail(store_requests)
    /\ store_response' = "ok"
    /\ UNCHANGED <<runVars, sourceVars, gossip_channel, pc, loopVars, now, connection, config,
                   serverVars, cacheVars>>

\* The statement fails with an error that is not a key conflict (or the
\* connection is gone): nothing is written and the client gets Err.
StoreError ==
    /\ store_requests # <<>>
    /\ store_requests' = Tail(store_requests)
    /\ store_response' = "err"
    /\ UNCHANGED <<runVars, sourceVars, gossip_channel, pc, loopVars, now, connection,
                   storeVars, serverVars, cacheVars>>

(***************************************************************************)
(* persist_network_graph (lines 217-231), called from the loop.            *)
(***************************************************************************)
\* A faulty variant of remove_stale_channels: the graph is written unpruned.
remove_stale_channels_skipped(graph) == graph

\* NetworkGraph::remove_stale_channels
remove_stale_channels(graph) == graph \ {"stale"}

\* OpenOptions::new().create(true).write(true).truncate(true).open(..).unwrap()
CacheOpen ==
    /\ pc = "cache_open"
    /\ cache_file' = Serialized({})
    /\ pc' = "cache_prune"
    /\ UNCHANGED <<runVars, sourceVars, gossip_channel, loopVars, now, connection,
                   store_requests, store_response, storeVars, serverVars,
                   network_graph, writer, latest_graph_cache_time,
                   cache_completions>>

\* self.network_graph.remove_stale_channels()
CachePrune ==
    /\ pc = "cache_prune"
    /\ network_graph' = remove_stale_channels(network_graph)
    /\ pc' = "cache_write"
    /\ UNCHANGED <<runVars, sourceVars, gossip_channel, loopVars, now, connection,
                   store_requests, store_response, storeVars, serverVars,
                   cache_file, writer, latest_graph_cache_time,
                   cache_completions>>

\* self.network_graph.write(&mut writer).unwrap()
CacheWrite ==
    /\ pc = "cache_write"
    /\ writer' = Serialized(network_graph)
    /\ pc' = "cache_flush"
    /\ UNCHANGED <<runVars, sourceVars, gossip_channel, loopVars, now, connection,
                   store_requests, store_response, storeVars, serverVars,
                   network_graph, cache_file, latest_graph_cache_time,
                   cache_completions>>

\* A faulty variant of TimerAfterCache: the timer is not reset.
TimerNotReset == latest_graph_cache_time

\* latest_graph_cache_time = Instant::now(), after persist_network_graph returned
TimerAfterCache == now

\* writer.flush().unwrap(); back in the loop, latest_graph_cache_time = Instant::now()
CacheFlush ==
    /\ pc = "cache_flush"
    /\ cache_file' = writer
    /\ writer' = None
    /\ latest_graph_cache_time' = TimerAfterCache
    /\ cache_completions' = Append(cache_completions, now)
    /\ pc' = "dispatch"
    /\ UNCHANGED <<runVars, sourceVars, gossip_channel, loopVars, now, connection,
                   store_requests, store_response, storeVars, serverVars,
                   network_graph>>

\* open, write or flush returns Err: unwrap panics
CacheFail ==
    /\ pc \in {"cache_open", "cache_write", "cache_flush"}
    /\ writer' = None
    /\ pc' = "aborted"
    /\ UNCHANGED <<runVars, sourceVars, gossip_channel, loopVars, now, connection,
                   store_requests, store_response, storeVars, serverVars,
                   network_graph, cache_file, latest_graph_cache_time,
                   cache_completions>>

(***************************************************************************)
(* The downstream server and the clock.                                    *)
(***************************************************************************)
\* The server's receiver.recv().await returns Some(())
ServerRecv ==
    /\ ~server_closed
    /\ completion_channel > 0
    /\ completion_channel' = completion_channel - 1
    /\ server_received' = server_received + 1
    /\ UNCHANGED <<runVars, sourceVars, gossip_channel, pc, loopVars, now, connection,
                   store_requests, store_response, storeVars, server_closed,
                   completion_sends, cacheVars>>

\* The server drops its Receiver.
ServerDrop ==
    /\ ~server_closed
    /\ server_closed' = TRUE
    /\ UNCHANGED <<runVars, sourceVars, gossip_channel, pc, loopVars, now, connection,
                   store_requests, store_response, storeVars, completion_channel,
                   server_received, completion_sends, cacheVars>>

\* The loop has been entered and has not ended.
LoopRunning == pc \notin {"connect", "init", "done", "aborted"}

\* Time passes.  The clock is read by the loop only, and only as the time elapsed
\* since line 90: its origin is the entry of the loop.
Tick ==
    /\ LoopRunning
    /\ now < horizon
    /\ now' = now + TickSecs
    /\ UNCHANGED <<runVars, sourceVars, gossip_channel, pc, loopVars, connection,
                   store_requests, store_response, storeVars, serverVars, cacheVars>>

(***************************************************************************)
(* The supervisor: the process is killed or has panicked, and is started   *)
(* again.  The store and the cache file outlive the process; everything    *)
(* GossipPersister::new and persist_gossip set up is set up anew, by a     *)
(* binary whose SCHEMA_VERSION may be the next one.  A statement in flight *)
(* has been executed before the restart or is lost.                        *)
(***************************************************************************)
Restart ==
    /\ restarts < MaxRestarts
    /\ pc # "done"
    /\ restarts' = restarts + 1
    /\ schema_version' \in {schema_version, schema_version + 1}
    /\ script' = stream
    /\ gossip_channel' = <<>>
    /\ pending_send' = None
    /\ senders_dropped' = FALSE
    /\ pc' = "connect"
    /\ gossip_message' = None
    /\ i' = 0
    /\ persistence_log_threshold' = InitialLogThreshold
    /\ server_sync_completion_sent' = FALSE
    /\ latest_graph_cache_time' = 0
    /\ now' = 0
    /\ connection' = "none"
    /\ store_requests' = <<>>
    /\ store_response' = "none"
    /\ completion_channel' = 0
    /\ server_received' = 0
    /\ server_closed' = FALSE
    /\ network_graph' = {"fresh", "stale"}
    /\ writer' = None
    /\ stdout' = <<>>
    /\ enqueued' = <<>>
    /\ dequeued' = <<>>
    /\ completion_sends' = 0
    /\ resumed_sends' = 0
    /\ closed_with_backlog' = FALSE
    /\ cache_completions' = <<>>
    /\ UNCHANGED <<alphabet, budget, horizon, stream, storeVars, cache_file>>

(***************************************************************************)
(* Specifications.                                                         *)
(***************************************************************************)
Cache == CacheOpen \/ CachePrune \/ CacheWrite \/ CacheFlush

Failure == ActorConnectFail \/ ActorBootstrapFail \/ StoreError \/ CacheFail \/ ServerDrop

\* A run of at most MaxMsgs messages, with the clock and with failures.
Next ==
    \/ SourceSend \/ SourceDrop
    \/ ActorConnect \/ ActorBootstrap
    \/ ActorRecv \/ ActorRecvClosed \/ ActorDispatch \/ ActorSend \/ ActorResume
    \/ Cache
    \/ StoreExecute
    \/ ServerRecv
    \/ Tick
    \/ Failure

Spec == Init /\ [][Next]_vars

\* A run shorter than the cache interval and without failures, whose source
\* sends more messages than the channel holds.
NextBackpressure ==
    \/ SourceSend \/ SourceResume \/ SourceDrop
    \/ ActorConnect \/ ActorBootstrap
    \/ ActorRecv \/ ActorRecvClosed \/ ActorSend \/ ActorResume
    \/ StoreExecute
    \/ ServerRecv

SpecBackpressure == InitBackpressure /\ [][NextBackpressure]_vars


(***************************************************************************)
(* Fair scheduling: the runtime polls a task that can run, the store       *)
(* answers a statement it was sent.  Failures are never forced.            *)
(***************************************************************************)
ActorStep ==
    \/ ActorConnect \/ ActorBootstrap
    \/ ActorRecv \/ ActorRecvClosed \/ ActorDispatch \/ ActorSend \/ ActorResume
    \/ Cache

Fairness == WF_vars(ActorStep) /\ WF_vars(StoreExecute)

\* The progress properties do not depend on the payloads: one message of each kind.
InitFair ==
    /\ InitActor
    /\ horizon = MaxTicks * TickSecs
    /\ alphabet = MixedAlphabet
    /\ budget = MaxMsgs

FairSpec == InitFair /\ [][Next]_vars /\ Fairness

\* A suspended send is woken once a permit is free.
FairnessBackpressure == Fairness /\ WF_vars(SourceResume)

FairSpecBackpressure ==
    InitBackpressure /\ [][NextBackpressure]_vars /\ FairnessBackpressure

\* A run in which the store connection may report an error at any time.
NextConnection == Next \/ ConnectionFail \/ ConnectionFailAbort

SpecConnection == InitFair /\ [][NextConnection]_vars

\* A run shorter than the cache interval that may crash, or be killed, at any
\* point and is then started again on the same store.
InitRestart ==
    /\ InitActor
    /\ alphabet = ReplayAlphabet
    /\ budget = MaxMsgs
    /\ horizon = 0

NextRestart ==
    \/ SourceSend \/ SourceReplay \/ SourceDrop
    \/ ActorConnect \/ ActorBootstrap
    \/ ActorRecv \/ ActorRecvClosed \/ ActorSend \/ ActorResume
    \/ StoreExecute \/ StoreError
    \/ ServerRecv
    \/ Restart

SpecRestart == InitRestart /\ [][NextRestart]_vars

\* A run observed for two cache intervals, so that the interval can elapse twice.
InitClock ==
    /\ InitActor
    /\ alphabet = MixedAlphabet
    /\ budget = MaxMsgs
    /\ horizon = (MaxTicks + 2) * TickSecs

SpecClock == InitClock /\ [][Next]_vars

(***************************************************************************)
(* Vocabulary of the properties.                                           *)
(***************************************************************************)
IsSync(m) == m.type = "InitialSyncComplete"
IsAnnouncement(m) == m.type = "ChannelAnnouncement"
IsUpdate(m) == m.type = "ChannelUpdate"

\* Positions of seq that hold a message satisfying the test
Positions(seq, Test(_)) == {k \in DOMAIN seq : Test(seq[k])}

\* The actor is between two messages: every dequeued message is fully processed.
Quiescent == pc \in {"recv", "done"}

\* Completion sends started so far: the completed ones and the one in progress.
CompletionSendsStarted == completion_sends + (IF pc = "send" THEN 1 ELSE 0)

(***************************************************************************)
(* C1: persist_gossip sends on the completion channel at most once,        *)
(* whatever the number and the places of the InitialSyncComplete messages  *)
(* in the stream.                                                          *)
(***************************************************************************)
C1_AtMostOneCompletionSend == CompletionSendsStarted <= 1

\* Two sync markers around an announcement have been processed; one send was made.
C1_Witness ==
    /\ Quiescent
    /\ Cardinality(Positions(dequeued, IsSync)) >= 2
    /\ \E k \in Positions(dequeued, IsAnnouncement) :
          /\ \E j \in Positions(dequeued, IsSync) : j < k
          /\ \E j \in Positions(dequeued, IsSync) : j > k
    /\ completion_sends = 1


(***************************************************************************)
(* C2: when the completion signal is sent, every announcement and update   *)
(* enqueued before the first InitialSyncComplete has had its insert        *)
(* completed (a row with its key is in the table), and no statement is     *)
(* still with the store.                                                   *)
(***************************************************************************)
\* Messages enqueued before the first sync marker
BeforeFirstSync ==
    {enqueued[k] : k \in {k \in DOMAIN enqueued :
                            /\ ~IsSync(enqueued[k])
                            /\ \E j \in Positions(enqueued, IsSync) : k < j
                            /\ \A j \in Positions(enqueued, IsSync) : j > k}}

SameTriple(a, b) ==
    /\ a.short_channel_id = b.short_channel_id
    /\ a.timestamp = b.timestamp
    /\ a.flags % 2 = b.flags % 2

\* The store holds a row for the key of m: m's own, or the one that made m a duplicate.
InsertCompleted(m) ==
    IF IsAnnouncement(m)
    THEN \E r \in channel_announcements :
            r.announcement_signed.short_channel_id = m.short_channel_id
    ELSE \E r \in channel_updates : SameTriple(r.blob_signed, m)

C2_SignalAfterBackfillPersisted ==
    /\ pc = "send" => store_requests = <<>>
    /\ CompletionSendsStarted >= 1 => \A m \in BeforeFirstSync : InsertCompleted(m)

\* The send is about to happen after an announcement and an update.
C2_Witness ==
    /\ pc = "send"
    /\ \E m \in BeforeFirstSync : IsAnnouncement(m)
    /\ \E m \in BeforeFirstSync : IsUpdate(m)

(***************************************************************************)
(* C4: between two messages channel_announcements holds exactly one row    *)
(* for each short_channel_id of a processed announcement, carrying the     *)
(* first announcement processed with that short_channel_id.                *)
(***************************************************************************)
\* The first announcement of each short_channel_id among the dequeued messages
FirstAnnouncements ==
    {dequeued[k] : k \in {k \in Positions(dequeued, IsAnnouncement) :
        \A j \in Positions(dequeued, IsAnnouncement) :
            j < k => dequeued[j].short_channel_id # dequeued[k].short_channel_id}}

C4_FirstAnnouncementWins ==
    Quiescent =>
        /\ {r.announcement_signed : r \in channel_announcements} = FirstAnnouncements
        /\ Cardinality(channel_announcements) =
             Cardinality({dequeued[k].short_channel_id :
                             k \in Positions(dequeued, IsAnnouncement)})

\* Two announcements of one short_channel_id with different payloads were processed.
C4_Witness ==
    /\ Quiescent
    /\ \E j, k \in Positions(dequeued, IsAnnouncement) :
          /\ j < k
          /\ dequeued[j].short_channel_id = dequeued[k].short_channel_id
          /\ dequeued[j].payload # dequeued[k].payload
    /\ Cardinality(channel_announcements) = 1

(***************************************************************************)
(* C5: between two messages channel_updates holds exactly one row for each *)
(* triple (short_channel_id, timestamp, channel_flags & 1) of a processed  *)
(* update, carrying the first update processed with that triple.           *)
(***************************************************************************)
FirstUpdates ==
    {dequeued[k] : k \in {k \in Positions(dequeued, IsUpdate) :
        \A j \in Positions(dequeued, IsUpdate) :
            j < k => ~SameTriple(dequeued[j], dequeued[k])}}

C5_FirstUpdatePerTripleWins ==
    Quiescent =>
        /\ {r.blob_signed : r \in channel_updates} = FirstUpdates
        /\ Cardinality(channel_updates) = Cardinality(FirstUpdates)

\* Updates that differ in the direction alone were both kept, and one that repeats
\* a triple with other flags and fee was dropped.
C5_Witness ==
    /\ Quiescent
    /\ dequeued = <<BaseUpdate, ChannelUpdate(Scid1, 100, 1, 1),
                    ChannelUpdate(Scid1, 100, 2, 2)>>
    /\ Cardinality(channel_updates) = 2

(***************************************************************************)
(* C6: between two messages the counter i is the number of announcements   *)
(* and updates processed so far, duplicates included, sync markers not.    *)
(***************************************************************************)
IsPersisted(m) == ~IsSync(m)

C6_CounterCountsGossip ==
    Quiescent => i = Cardinality(Positions(dequeued, IsPersisted))

\* An update, a sync marker and the same update again: the counter is 2.
C6_Witness ==
    /\ Quiescent
    /\ dequeued = <<BaseUpdate, InitialSyncComplete, BaseUpdate>>
    /\ Cardinality(channel_updates) = 1
    /\ i = 2

(***************************************************************************)
(* C7: messages are dequeued in the order they were enqueued, none skipped *)
(* and none twice, and at most one store write is in flight: it belongs to *)
(* the message dequeued last, and no message is dequeued before it ends.   *)
(***************************************************************************)
C7_InOrderOneAtATime ==
    /\ dequeued \o gossip_channel = enqueued
    /\ Len(store_requests) <= 1
    /\ store_requests # <<>> =>
          /\ pc = "insert"
          /\ dequeued # <<>>
          /\ ~IsSync(dequeued[Len(dequeued)])
          /\ store_requests[1] = InsertRequest(dequeued[Len(dequeued)])

\* Three different messages were sent and the second one's write is in flight
\* while the third waits in the channel.
C7_Witness ==
    /\ Len(enqueued) = 3
    /\ Cardinality({enqueued[k] : k \in DOMAIN enqueued}) = 3
    /\ Len(dequeued) = 2
    /\ store_requests # <<>>
    /\ Len(gossip_channel) = 1

(***************************************************************************)
(* C9: the completion send never waits: whenever the actor is at the send  *)
(* the completion channel has a free slot, whether or not the server has   *)
(* received anything.                                                      *)
(***************************************************************************)
C9_CompletionSendNeverBlocks ==
    pc = "send" => completion_channel < CompletionCapacity

\* The signal was sent, the server has not received it, and the actor has
\* processed an announcement that followed the sync marker.
C9_Witness ==
    /\ Quiescent
    /\ completion_sends = 1
    /\ server_received = 0
    /\ ~server_closed
    /\ \E k \in Positions(dequeued, IsAnnouncement) :
          /\ \E j \in Positions(dequeued, IsSync) : j < k
          /\ InsertCompleted(dequeued[k])


(***************************************************************************)
(* C3: under fair scheduling, once an InitialSyncComplete is in the        *)
(* stream, either a failure aborts the actor or the completion signal is   *)
(* delivered, and from then on it has been delivered exactly once.         *)
(***************************************************************************)
SyncEnqueued == Positions(enqueued, IsSync) # {}

\* A store, file or channel failure has made the actor panic.
Failed == pc = "aborted"

C3_SignalEventuallyDeliveredOnce ==
    SyncEnqueued ~> [](Failed \/ completion_sends = 1)

\* The signal was delivered in a run without failure; the stream held two markers.
C3_Witness ==
    /\ completion_sends = 1
    /\ ~Failed
    /\ ~server_closed
    /\ Cardinality(Positions(dequeued, IsSync)) = 2
    /\ pc = "done"


(***************************************************************************)
(* C8: the gossip channel never buffers more than 100 messages; a send     *)
(* suspends only when 100 are buffered and its message is kept, so every   *)
(* message sent is buffered, dequeued or held by the suspended send; and   *)
(* under fair scheduling a suspended send completes.                       *)
(***************************************************************************)
Suspended == pending_send # None

\* Sends the source has started
SendsStarted == ChannelCapacity + ExtraMsgs - budget

C8_NoMessageLost ==
    /\ Len(gossip_channel) <= ChannelCapacity
    /\ dequeued \o gossip_channel = enqueued
    /\ Len(enqueued) + (IF Suspended THEN 1 ELSE 0) = SendsStarted

C8_SuspendsOnlyWhenFull ==
    ~Suspended /\ Suspended' => Len(gossip_channel) = ChannelCapacity

C8_BoundedChannelBackpressure ==
    /\ []C8_NoMessageLost
    /\ [][C8_SuspendsOnlyWhenFull]_vars
    /\ Suspended ~> ~Suspended

\* A send that was suspended on the full channel has completed, and the channel
\* is full again.
C8_Witness ==
    /\ resumed_sends >= 1
    /\ Len(gossip_channel) = ChannelCapacity
    /\ Len(enqueued) > ChannelCapacity

(***************************************************************************)
(* C10: once every Sender is dropped the loop ends only with the channel   *)
(* drained: every message enqueued has been dequeued in order and its      *)
(* insert completed; a closed, empty channel makes the actor leave the     *)
(* loop normally; and under fair scheduling the actor ends, by that exit   *)
(* or by a failure.                                                        *)
(***************************************************************************)
C10_Drained ==
    pc = "done" =>
        /\ senders_dropped
        /\ gossip_channel = <<>>
        /\ dequeued = enqueued
        /\ store_requests = <<>>
        /\ \A k \in Positions(dequeued, IsPersisted) : InsertCompleted(dequeued[k])

\* The actor's step at recv on a closed, empty channel is the normal exit.
C10_CloseIsNotAnError ==
    pc = "recv" /\ gossip_channel = <<>> /\ senders_dropped /\ pc' # pc => pc' = "done"

C10_DrainsThenExits ==
    /\ []C10_Drained
    /\ [][C10_CloseIsNotAnError]_vars
    /\ senders_dropped ~> (pc = "done" \/ Failed)

\* The Senders were dropped with messages buffered; the loop has ended after
\* processing all three messages.
C10_Witness ==
    /\ pc = "done"
    /\ closed_with_backlog
    /\ Len(dequeued) = 3
    /\ \E k \in Positions(dequeued, IsPersisted) : InsertCompleted(dequeued[k])

(***************************************************************************)
(* C11: A run whose gossip channel is closed before any message was sent   *)
(* ends the loop with no row in channel_announcements or channel_updates,  *)
(* no statement issued by the loop and no completion signal; and in every  *)
(* run a completion send completes only while an InitialSyncComplete is    *)
(* being handled, and a row enters channel_announcements (channel_updates) *)
(* only while a ChannelAnnouncement (ChannelUpdate) is being handled, the  *)
(* row being that message's own.                                           *)
(***************************************************************************)
C11_EmptyRunDoesNothing ==
    (pc = "done" /\ enqueued = <<>>) =>
        /\ channel_announcements = {}
        /\ channel_updates = {}
        /\ store_requests = <<>>
        /\ store_response = "none"
        /\ completion_sends = 0
        /\ completion_channel = 0
        /\ server_received = 0
        /\ i = 0

C11_EffectsOnlyInTheirArm ==
    /\ completion_sends' # completion_sends =>
          pc = "send" /\ IsSync(gossip_message)
    /\ channel_announcements' # channel_announcements =>
          /\ pc = "insert"
          /\ IsAnnouncement(gossip_message)
          /\ channel_announcements' =
                channel_announcements \cup {AnnouncementRow(gossip_message)}
    /\ channel_updates' # channel_updates =>
          /\ pc = "insert"
          /\ IsUpdate(gossip_message)
          /\ channel_updates' = channel_updates \cup {UpdateRow(gossip_message)}

C11_FrameOfTheLoop ==
    /\ []C11_EmptyRunDoesNothing
    /\ [][C11_EffectsOnlyInTheirArm]_vars

\* The loop was entered after the bootstrap and ended on a channel that was
\* closed before anything was sent.
C11_Witness ==
    /\ pc = "done"
    /\ senders_dropped
    /\ enqueued = <<>>
    /\ config # {}

(***************************************************************************)
(* C12, as claimed: a run of the loop that has lasted longer than the      *)
(* cache interval has performed at least one cache write, even when the    *)
(* gossip channel was idle.                                                *)
(***************************************************************************)
C12_CacheInEveryLongRun ==
    (pc = "done" /\ now > CacheIntervalSecs) => cache_completions # <<>>

\* The clock reading the cache timer is measured from, kept apart from the
\* loop's own variable: the loop's entry or the end of the last cache write.
TimerOrigin ==
    IF cache_completions = <<>> THEN 0
    ELSE cache_completions[Len(cache_completions)]

CachePhases == {"cache_open", "cache_prune", "cache_write", "cache_flush"}

(***************************************************************************)
(* C12, amended: the cache write is invoked by the dequeue of a message    *)
(* and by nothing else.  A message dequeued 600 seconds or more after the  *)
(* later of the loop's entry and the end of the previous cache write       *)
(* invokes it before the message is dispatched; a run in which no message  *)
(* is dequeued performs no cache write, however long it lasts.             *)
(***************************************************************************)
C12_DequeueAfterIntervalCaches ==
    /\ (dequeued' # dequeued /\ now - TimerOrigin >= CacheIntervalSecs) =>
          pc' = "cache_open"
    /\ (pc' = "cache_open" /\ pc # "cache_open") => dequeued' # dequeued

C12_IdleRunNeverCaches ==
    dequeued = <<>> =>
        /\ cache_file = None
        /\ cache_completions = <<>>
        /\ pc \notin CachePhases

C12_CacheOnlyOnDequeue ==
    /\ []C12_IdleRunNeverCaches
    /\ [][C12_DequeueAfterIntervalCaches]_vars

\* The loop has waited on an idle channel for longer than the interval and
\* ended without a cache write.
C12_Witness ==
    /\ pc = "done"
    /\ now > CacheIntervalSecs
    /\ dequeued = <<>>
    /\ cache_file = None

(***************************************************************************)
(* C13: The cache write is never invoked before 600 seconds have elapsed   *)
(* since the later of the loop's entry and the end of the previous cache   *)
(* write: while the run is shorter than the interval there is no cache     *)
(* write, and two consecutive cache writes end at least 600 seconds apart. *)
(***************************************************************************)
C13_NoCacheInShortRun ==
    now < CacheIntervalSecs =>
        /\ cache_file = None
        /\ cache_completions = <<>>
        /\ pc \notin CachePhases

C13_ConsecutiveWritesApart ==
    \A k \in 2..Len(cache_completions) :
        cache_completions[k] - cache_completions[k - 1] >= CacheIntervalSecs

C13_InvokedAfterInterval ==
    (pc' = "cache_open" /\ pc # "cache_open") =>
        now - TimerOrigin >= CacheIntervalSecs

C13_CacheNotBeforeInterval ==
    /\ []C13_NoCacheInShortRun
    /\ []C13_ConsecutiveWritesApart
    /\ [][C13_InvokedAfterInterval]_vars

\* Two cache writes have completed in one run.
C13_Witness ==
    /\ Len(cache_completions) = 2
    /\ pc = "dispatch"

(***************************************************************************)
(* C14: Once an insert has failed with an error that is not a conflict, a  *)
(* step of the cache write has failed or the completion send has found the *)
(* receiver gone, the actor does nothing more: the failed operation is not *)
(* issued again, no message is dequeued, no row is written, no cache file  *)
(* is written and no completion send is made.                              *)
(***************************************************************************)
\* A failure has been reported to the actor or has already ended it.
FailureReported == pc = "aborted" \/ (pc = "insert" /\ store_response = "err")

C14_NothingAfterFailure ==
    FailureReported =>
        /\ pc' \in {pc, "aborted"}
        /\ store_requests = <<>> /\ store_requests' = <<>>
        /\ dequeued' = dequeued
        /\ gossip_channel' = gossip_channel \/ Len(gossip_channel') > Len(gossip_channel)
        /\ storeVars' = storeVars
        /\ completion_sends' = completion_sends
        /\ cache_file' = cache_file
        /\ cache_completions' = cache_completions
        /\ stdout' = stdout

C14_CrashOnly == [][C14_NothingAfterFailure]_vars

\* The loop has ended on a failed insert, with a message still waiting in the
\* channel and nothing written for the failed one.
C14_Witness ==
    /\ pc = "aborted"
    /\ store_response = "none"
    /\ IsPersisted(gossip_message)
    /\ ~InsertCompleted(gossip_message)
    /\ gossip_channel # <<>>

(***************************************************************************)
(* C15, as claimed: once the store connection has reported a failure, the  *)
(* actor loop dequeues no further message, writes no cache file and makes  *)
(* no completion send, whatever message comes next.                        *)
(***************************************************************************)
C15_NothingAfterConnectionFailure ==
    connection = "failed" =>
        /\ dequeued' = dequeued
        /\ cache_file' = cache_file
        /\ completion_sends' = completion_sends

C15_ConnectionFailureStopsActor == [][C15_NothingAfterConnectionFailure]_vars

(***************************************************************************)
(* C16: When the process has crashed at some point of a stream and the     *)
(* restarted actor has processed the stream again from its beginning to    *)
(* its end, channel_announcements and channel_updates hold what processing *)
(* the stream once, without a crash, leaves in them; and no step, of the   *)
(* first run or of the replay, changes or removes a row that exists.       *)
(***************************************************************************)
\* The named table after the inserts of the messages, executed once and in order.
RECURSIVE ProcessedOnce(_, _)
ProcessedOnce(messages, name) ==
    IF messages = <<>> THEN {}
    ELSE LET before == ProcessedOnce(SubSeq(messages, 1, Len(messages) - 1), name)
             m == messages[Len(messages)]
         IN IF IsSync(m) THEN before
            ELSE Executed(before, name, InsertRequest(m))

C16_ReplayEndsAsOneRun ==
    (pc = "done" /\ dequeued = stream) =>
        /\ channel_announcements = ProcessedOnce(stream, "channel_announcements")
        /\ channel_updates = ProcessedOnce(stream, "channel_updates")

C16_RowsAreKept ==
    /\ channel_announcements \subseteq channel_announcements'
    /\ channel_updates \subseteq channel_updates'

C16_RestartSafety ==
    /\ []C16_ReplayEndsAsOneRun
    /\ [][C16_RowsAreKept]_vars

\* The process was started again and the replay of the whole stream, whose
\* three messages are persisted ones colliding on one key, has ended.
C16_Witness ==
    /\ restarts = 1
    /\ pc = "done"
    /\ dequeued = stream
    /\ Len(stream) = 3
    /\ \A k \in 1..3 : IsPersisted(stream[k])
    /\ Cardinality(channel_announcements) + Cardinality(channel_updates) = 1

(***************************************************************************)
(* C17: The schema bootstrap has completed before the first message is     *)
(* dequeued, and it is idempotent: run on a store that was bootstrapped    *)
(* before, with whatever rows it holds, it leaves config,                  *)
(* channel_announcements and channel_updates as they are, and the single   *)
(* config row keeps the schema version the first bootstrap wrote even when *)
(* the running binary's SCHEMA_VERSION is another one.                     *)
(***************************************************************************)
C17_BootstrapBeforeFirstDequeue ==
    Len(dequeued') > Len(dequeued) => (config # {} /\ pc = "recv")

C17_BootstrapIsIdempotent ==
    (pc = "init" /\ pc' = "recv" /\ config # {}) => storeVars' = storeVars

C17_SchemaVersionIsKept ==
    /\ Cardinality(config) <= 1
    /\ \A r \in config : r.id = 1
    /\ config # {} => config' = config

C17_BootstrapOnceForAll ==
    [][C17_BootstrapBeforeFirstDequeue /\ C17_BootstrapIsIdempotent
       /\ C17_SchemaVersionIsKept]_vars

\* A binary with another SCHEMA_VERSION has bootstrapped a store that holds the
\* first binary's config row and a gossip row.
C17_Witness ==
    /\ restarts = 1
    /\ pc = "recv"
    /\ dequeued = <<>>
    /\ schema_version # SCHEMA_VERSION
    /\ config = {[id |-> 1, db_schema |-> SCHEMA_VERSION]}
    /\ channel_announcements # {}
    /\ channel_updates # {}

(***************************************************************************)
(* C18: The actor is in one of two states, AwaitingSync and Live, Live     *)
(* being server_sync_completion_sent = true, which holds exactly when the  *)
(* log threshold is 50.  It leaves AwaitingSync on an InitialSyncComplete  *)
(* and never comes back.  Between two messages it is Live exactly when an  *)
(* InitialSyncComplete has been processed, and exactly when the completion *)
(* signal has been sent.  The handling of a later InitialSyncComplete      *)
(* leaves the state, the counter, the store and the completion channel as  *)
(* they were.                                                              *)
(***************************************************************************)
Live == server_sync_completion_sent
AwaitingSync == ~server_sync_completion_sent

C18_TwoStates ==
    /\ Live <=> persistence_log_threshold = LiveLogThreshold
    /\ AwaitingSync <=> persistence_log_threshold = InitialLogThreshold
    /\ Quiescent =>
          /\ Live <=> (\E k \in 1..Len(dequeued) : IsSync(dequeued[k]))
          /\ Live <=> completion_sends = 1
          /\ AwaitingSync <=> completion_sends = 0

\* The step that ends the handling of an InitialSyncComplete received when Live.
LaterSyncHandled ==
    /\ Live
    /\ pc' = "recv"
    /\ IsSync(gossip_message')
    /\ \/ pc = "recv" /\ Len(dequeued') > Len(dequeued)
       \/ pc = "dispatch"

C18_Transitions ==
    /\ Live => Live'
    /\ (AwaitingSync /\ Live') => IsSync(gossip_message')
    /\ LaterSyncHandled =>
          /\ Live'
          /\ persistence_log_threshold' = persistence_log_threshold
          /\ i' = Cardinality(Positions(dequeued, IsPersisted))
          /\ storeVars' = storeVars
          /\ store_requests' = store_requests
          /\ store_response' = store_response
          /\ serverVars' = serverVars

C18_TwoStateMachine == []C18_TwoStates /\ [][C18_Transitions]_vars

\* A second InitialSyncComplete has been processed after a persisted message.
C18_Witness ==
    /\ pc = "recv"
    /\ Live
    /\ Len(dequeued) = 3
    /\ IsSync(dequeued[1])
    /\ IsPersisted(dequeued[2])
    /\ IsSync(dequeued[3])
    /\ i = 1
    /\ completion_sends = 1

(***************************************************************************)
(* C19, as claimed: the progress log prints numbers of persisted messages, *)
(* each at most once, and an InitialSyncComplete does not cause a line:    *)
(* the log never holds a number twice, and it does not grow when an        *)
(* InitialSyncComplete is dequeued.                                        *)
(***************************************************************************)
C19_NumberLoggedOnce ==
    \A j, k \in 1..Len(stdout) : stdout[j] = stdout[k] => j = k

C19_SyncDoesNotLog ==
    (Len(dequeued') > Len(dequeued) /\ IsSync(gossip_message')) => stdout' = stdout

C19_ProgressLogOncePerNumber ==
    /\ []C19_NumberLoggedOnce
    /\ [][C19_SyncDoesNotLog]_vars

(***************************************************************************)
(* C20: The cache write runs inside the loop, before the dispatch of the   *)
(* message that triggered it.  While it is in progress no message is       *)
(* dequeued, no statement is issued or executed and no completion send is  *)
(* made; and when the triggering message, of whatever type, reaches its    *)
(* dispatch, the stale channels have been pruned and the pruned graph has  *)
(* been serialized and flushed to the file.                                *)
(***************************************************************************)
C20_NothingInFlightDuringCache ==
    pc \in CachePhases =>
        /\ store_requests = <<>>
        /\ store_response = "none"
        /\ gossip_message # None

C20_CacheCompleteAtDispatch ==
    pc = "dispatch" =>
        /\ "stale" \notin network_graph
        /\ cache_file = Serialized(network_graph)
        /\ writer = None

C20_IngestionPaused ==
    /\ pc \in CachePhases =>
          /\ pc' \in CachePhases \cup {"dispatch", "aborted"}
          /\ dequeued' = dequeued
          /\ gossip_message' = gossip_message
          /\ store_requests' = store_requests
          /\ storeVars' = storeVars
          /\ completion_sends' = completion_sends
    /\ (Len(store_requests') > Len(store_requests) \/ (pc' = "send" /\ pc # "send")) =>
          \/ pc = "dispatch"
          \/ pc = "recv" /\ now - TimerOrigin < CacheIntervalSecs

C20_CacheBeforeDispatch ==
    /\ []C20_NothingInFlightDuringCache
    /\ []C20_CacheCompleteAtDispatch
    /\ [][C20_IngestionPaused]_vars

\* An InitialSyncComplete triggered the cache write, and its completion send is
\* about to happen with the pruned graph in the file.
C20_Witness ==
    /\ pc = "send"
    /\ dequeued = <<InitialSyncComplete>>
    /\ Len(cache_completions) = 1
    /\ cache_file = Serialized({"fresh"})
    /\ completion_sends = 0

====
